---- MODULE Spec2Model ----
(***************************************************************************)
(* Model of guild-activity-helper: ActivityTracker.calculate_activity      *)
(* (src/activity_tracker.py).  Time is counted in whole minutes; a         *)
(* datetime is a natural number, a timedelta an integer, and None is the   *)
(* value -1, which is no timestamp.                                        *)
(***************************************************************************)
EXTENDS Integers, Sequences, FiniteSets, TLC

\* ------------------------------------------------------------------ bounds
\* longest log (number of entries) one invocation reads
MaxLogLen == 4
\* longest log file of the re-invocation specification
MaxRerunLen == 2
MaxFileLen == 2
MaxHistoryLen == 3
MaxRosterLines == 4
\* most members of the server the role updater sees
MaxMembers == 2

\* ------------------------------------------------------- program constants
MINS_FOR_LONG_JOIN == 30
MINS_FOR_RECONNECT_TIMEOUT == 60 * 2
MINS_FOR_JOIN_LOG_TIMEOUT == 60 * 24
MINS_FOR_ACTIVITY_RANGE == 60 * 24 * 60
NUM_LONG_JOINS_FOR_ACTIVITY == 2
MINS_FOR_RAW_PROMOTION_ACTIVITY_RANGE == 60 * 24 * 7
NUM_LONG_JOINS_FOR_RAW_PROMOTION == 1
MINS_FOR_RAW_JOIN_DATE_PROMOTION_RANGE == 60 * 24 * 30
MINS_FOR_BOILED_PROMOTION_ACTIVITY_RANGE == 60 * 24 * 7
NUM_LONG_JOINS_FOR_BOILED_PROMOTION == 1
MINS_FOR_BOILED_JOIN_DATE_PROMOTION_RANGE == 60 * 24 * 91
SCRAMBLED_SB_LEVEL == 240

GUILD_LIST_FILENAME == "data/guild_list.txt"
SB_LEVEL_LIST_FILENAME == "data/sb_level_list.txt"
ACTIVE_LIST_FILENAME == "output/active_igns.txt"
RAW_RANK == "Raw Egg"
BOILED_RANK == "Hard Boiled Egg"

None == -1

\* ------------------------------------------------------------ input domains
\* identities; "b" is never in a log, "c" is in logs and on few rosters
Igns == {"a", "b", "c"}
LogIgns == {"a", "c"}
\* alphabetical order of the identities (Python's str comparison)
Alphabet == <<"a", "b", "c">>

\* timestamps a log entry can carry: spans below (11) and above (39, 50, 89,
\* 100) the long-join minimum, and eight days and 20 minutes (11540)
Times == {0, 11, 50, 100, 11540}

\* values datetime.now() can return when the promotion lists are computed
\* (30 days and 11 minutes, 91 days and 10 minutes)
Nows == {43211, 131050}

\* contents of data/guild_list.txt after parsing: rank -> member list.
\* A rank without a member line has no key.
RosterRawA == (RAW_RANK :> <<"a">>) @@ (BOILED_RANK :> <<"b">>)
RosterBoiledA == (RAW_RANK :> <<"b">>) @@ (BOILED_RANK :> <<"a", "c">>)
RosterNoBoiled == (RAW_RANK :> <<"c", "a">>) @@ ("Scrambled Egg" :> <<"b">>)
Rosters == {RosterRawA, RosterBoiledA, RosterNoBoiled}

\* contents of data/sb_level_list.txt after parsing: ign -> level
SbLevelLists ==
    { <<>>, ("a" :> 239), ("a" :> 240) @@ ("b" :> 100) }

\* the two data files an invocation finds on disk; the level file varies
\* where it is read, with "a" in the rank of the second promotion
DataFiles ==
    { f \in Rosters \X SbLevelLists : f[2] # <<>> => f[1] = RosterBoiledA }

\* log entries the ingestor writes: join, leave, guild join
LogEntries ==
    { e \in [timestamp : Times, ign : LogIgns,
             is_join : BOOLEAN, is_guild_join : BOOLEAN] :
        e.is_guild_join => e.is_join }

\* ------------------------------------------------------------ list helpers
Range(s) == { s[i] : i \in 1..Len(s) }

Filter(s, Keep(_)) == SelectSeq(s, Keep)

\* s[-n:]
LastN(s, n) ==
    IF n >= Len(s) THEN s ELSE SubSeq(s, Len(s) - n + 1, Len(s))

\* insert x into the list s (sorted, largest key first) behind every element
\* whose key is not smaller: sorted(..., reverse=True) keeps equal keys in
\* their original order.  key is a function from elements to numbers.
RECURSIVE InsertDesc(_, _, _)
InsertDesc(s, x, key) ==
    IF s = <<>> THEN <<x>>
    ELSE IF key[s[1]] >= key[x] THEN <<s[1]>> \o InsertDesc(Tail(s), x, key)
    ELSE <<x>> \o s

\* the sort without reverse=True: ascending by key, equal keys in their
\* original order
RECURSIVE InsertAsc(_, _, _)
InsertAsc(s, x, key) ==
    IF s = <<>> THEN <<x>>
    ELSE IF key[s[1]] <= key[x] THEN <<s[1]>> \o InsertAsc(Tail(s), x, key)
    ELSE <<x>> \o s

RECURSIVE SortedAsc(_, _)
SortedAsc(s, key) ==
    IF s = <<>> THEN <<>>
    ELSE InsertAsc(SortedAsc(SubSeq(s, 1, Len(s) - 1), key), s[Len(s)], key)

RECURSIVE SortedDesc(_, _)
SortedDesc(s, key) ==
    IF s = <<>> THEN <<>>
    ELSE InsertDesc(SortedDesc(SubSeq(s, 1, Len(s) - 1), key), s[Len(s)], key)

\* sorted(list of str): ascending, alphabetical
SortedAlpha(S) ==
    Filter(Alphabet, LAMBDA x : x \in S)

\* every ordering of a set (iteration order of a Python set of str)
Orderings(S) ==
    { s \in [1..Cardinality(S) -> S] : Range(s) = S }


\* -------------------------------------------------------- time arithmetic
\* timedelta.seconds of (end - start): the seconds left over after the whole
\* days are taken out, always in 0..86399, also for a negative difference
TimedeltaSeconds(start, end) == ((end - start) * 60) % 86400

\* the seconds of the difference compared with the minutes
is_time_within_mins_SecondsWithMinutes(start, end, mins) ==
    TimedeltaSeconds(start, end) < mins

is_time_within_mins(start, end, mins) ==
    TimedeltaSeconds(start, end) < 60 * mins

\* ------------------------------------------------- self.activity, a dict
\* An insertion-ordered dict is the list of its entries, oldest key first.
NewInfo(i) ==
    [ign |-> i, last_join |-> None, last_leave |-> None, last_long_join |-> <<>>]

Keys(act) == [k \in 1..Len(act) |-> act[k].ign]

HasKey(act, i) == \E k \in 1..Len(act) : act[k].ign = i

KeyIndex(act, i) == CHOOSE k \in 1..Len(act) : act[k].ign = i

Info(act, i) == act[KeyIndex(act, i)]

\* the key function of the tier sorts: ign -> last_join
LastJoinKey(act) ==
    [i \in Range(Keys(act)) |-> Info(act, i).last_join]

\* -------------------------------------------- one iteration of the log loop
\* the condition under which a join moves last_join to the entry's timestamp
JoinSetsLastJoin(info, timestamp) ==
    \/ info.last_leave = None
    \/ ~ is_time_within_mins(info.last_leave, timestamp, MINS_FOR_RECONNECT_TIMEOUT)
    \/ is_time_within_mins(info.last_join, timestamp, MINS_FOR_JOIN_LOG_TIMEOUT)

\* the third comparison is reached with last_join = None: datetime - None
JoinRaisesTypeError(info, timestamp) ==
    /\ info.last_leave # None
    /\ is_time_within_mins(info.last_leave, timestamp, MINS_FOR_RECONNECT_TIMEOUT)
    /\ info.last_join = None

OnJoin(info, timestamp) ==
    IF JoinSetsLastJoin(info, timestamp)
    THEN [info EXCEPT !.last_join = timestamp]
    ELSE info

\* OnLeave without the check against the last appended value
OnLeaveNoDedup(info, timestamp, furthest) ==
    LET left == [info EXCEPT !.last_leave = timestamp]
        last_join_timestamp ==
            IF left.last_join = None THEN furthest ELSE left.last_join
        joined == [left EXCEPT !.last_join = last_join_timestamp]
    IN  IF ~ is_time_within_mins(last_join_timestamp, timestamp, MINS_FOR_LONG_JOIN)
        THEN [joined EXCEPT !.last_long_join = Append(@, joined.last_join)]
        ELSE joined

\* OnLeave that puts furthest_log_time into last_join on every leave
OnLeaveAlwaysFurthest(info, timestamp, furthest) ==
    LET left == [info EXCEPT !.last_leave = timestamp]
        joined == [left EXCEPT !.last_join = furthest]
        long == joined.last_long_join
    IN  IF /\ ~ is_time_within_mins(furthest, timestamp, MINS_FOR_LONG_JOIN)
           /\ \/ Len(long) = 0
              \/ long[Len(long)] # joined.last_join
        THEN [joined EXCEPT !.last_long_join = Append(long, joined.last_join)]
        ELSE joined

\* OnLeave that takes the leave itself for the missing join
OnLeaveNullJoinIsLeaveTime(info, timestamp, furthest) ==
    LET left == [info EXCEPT !.last_leave = timestamp]
        last_join_timestamp ==
            IF left.last_join = None THEN timestamp ELSE left.last_join
        joined == [left EXCEPT !.last_join = last_join_timestamp]
        long == joined.last_long_join
    IN  IF /\ ~ is_time_within_mins(last_join_timestamp, timestamp, MINS_FOR_LONG_JOIN)
           /\ \/ Len(long) = 0
              \/ long[Len(long)] # joined.last_join
        THEN [joined EXCEPT !.last_long_join = Append(long, joined.last_join)]
        ELSE joined

\* OnLeave that measures from furthest_log_time without storing it
OnLeaveKeepsNullJoin(info, timestamp, furthest) ==
    LET left == [info EXCEPT !.last_leave = timestamp]
        last_join_timestamp ==
            IF left.last_join = None THEN furthest ELSE left.last_join
        long == left.last_long_join
    IN  IF /\ ~ is_time_within_mins(last_join_timestamp, timestamp, MINS_FOR_LONG_JOIN)
           /\ \/ Len(long) = 0
              \/ long[Len(long)] # last_join_timestamp
        THEN [left EXCEPT !.last_long_join = Append(long, last_join_timestamp)]
        ELSE left

OnLeave(info, timestamp, furthest) ==
    LET left == [info EXCEPT !.last_leave = timestamp]
        last_join_timestamp ==
            IF left.last_join = None THEN furthest ELSE left.last_join
        joined == [left EXCEPT !.last_join = last_join_timestamp]
        long == joined.last_long_join
    IN  IF /\ ~ is_time_within_mins(last_join_timestamp, timestamp, MINS_FOR_LONG_JOIN)
           /\ \/ Len(long) = 0
              \/ long[Len(long)] # joined.last_join
        THEN [joined EXCEPT !.last_long_join = Append(long, joined.last_join)]
        ELSE joined

\* self.activity after the loop body has run on one entry
ActivityAfter(act, log, furthest) ==
    LET present == IF HasKey(act, log.ign) THEN act
                   ELSE Append(act, NewInfo(log.ign))
        k == KeyIndex(present, log.ign)
    IN  [present EXCEPT ![k] =
            IF log.is_join THEN OnJoin(@, log.timestamp)
            ELSE OnLeave(@, log.timestamp, furthest)]

\* the comparison of line 341 turned round
InGraceRangeReversed(timestamp, furthest) ==
    timestamp <= furthest - MINS_FOR_ACTIVITY_RANGE

\* timestamp >= activity_grace_period_end
InGraceRange(timestamp, furthest) ==
    timestamp >= furthest - MINS_FOR_ACTIVITY_RANGE


\* ------------------------------------------------------------ classification
\* get_active_igns with > for >=
get_active_igns_MoreThan(act) ==
    Filter(Keys(act),
           LAMBDA i : Len(Info(act, i).last_long_join) > NUM_LONG_JOINS_FOR_ACTIVITY)

get_active_igns(act) ==
    Filter(Keys(act),
           LAMBDA i : Len(Info(act, i).last_long_join) >= NUM_LONG_JOINS_FOR_ACTIVITY)

\* the ranks a roster file can name, in file order
RankOrder == <<RAW_RANK, BOILED_RANK, "Scrambled Egg">>

\* [ign for igns in guild_list_dict.values() for ign in igns]
RECURSIVE FlattenRanks(_, _)
FlattenRanks(dict, ranks) ==
    IF ranks = <<>> THEN <<>>
    ELSE (IF ranks[1] \in DOMAIN dict THEN dict[ranks[1]] ELSE <<>>)
         \o FlattenRanks(dict, Tail(ranks))

GuildList(dict) == FlattenRanks(dict, RankOrder)

\* the tiers before the roster and grace filters
SortedActive(act) == SortedDesc(get_active_igns(act), LastJoinKey(act))

SortedInactive(act, guild_list) ==
    LET active == Range(SortedActive(act))
    IN  SortedDesc(Filter(Keys(act), LAMBDA i : i \notin active), LastJoinKey(act))
        \o SortedAlpha({ i \in Range(guild_list) : ~ HasKey(act, i) })

\* grace_order is the order in which the set igns_in_grace_period iterates
SortedGrace(act, grace_order) == SortedDesc(grace_order, LastJoinKey(act))

\* ActiveIgns without the roster filter
ActiveIgnsNoRosterFilter(act, guild_list) == SortedActive(act)

\* the three tiers as calculate_activity leaves them
ActiveIgns(act, guild_list) ==
    Filter(SortedActive(act), LAMBDA i : i \in Range(guild_list))

GracePeriodIgns(act, grace_order, guild_list) ==
    LET in_guild == Filter(SortedGrace(act, grace_order),
                           LAMBDA i : i \in Range(guild_list))
    IN  Filter(in_guild, LAMBDA i : i \notin Range(ActiveIgns(act, guild_list)))

\* InactiveIgns without the removal of the grace period igns
InactiveIgnsKeepsGrace(act, grace_order, guild_list) ==
    Filter(SortedInactive(act, guild_list), LAMBDA i : i \in Range(guild_list))

InactiveIgns(act, grace_order, guild_list) ==
    LET in_guild == Filter(SortedInactive(act, guild_list),
                           LAMBDA i : i \in Range(guild_list))
    IN  Filter(in_guild,
               LAMBDA i : i \notin Range(GracePeriodIgns(act, grace_order, guild_list)))

\* ----------------------------------------------------------------- promotion
\* the comparison of line 269 turned round
RecentlyActiveReversed(info, nearest, range, num) ==
    \A k \in 1..Len(LastN(info.last_long_join, num)) :
        ~ (LastN(info.last_long_join, num)[k] > nearest - range)

\* no long join of the last `num` is older than nearest - range
RecentlyActive(info, nearest, range, num) ==
    \A k \in 1..Len(LastN(info.last_long_join, num)) :
        ~ (LastN(info.last_long_join, num)[k] < nearest - range)

\* JoinDateAllows with < for <=
JoinDateAllowsStrict(known, i, today, range) ==
    known[i] = None \/ known[i] < today - range

\* JoinDateAllows that wants a known join date
JoinDateAllowsKnownOnly(known, i, today, range) ==
    known[i] # None /\ known[i] <= today - range

\* ign not in known_guild_join_dates or known_guild_join_dates[ign] <= join_date_end
JoinDateAllows(known, i, today, range) ==
    known[i] = None \/ known[i] <= today - range

\* SbLevel whose default passes the level gate
SbLevelDefaultPasses(levels, i) ==
    IF i \in DOMAIN levels THEN levels[i] ELSE SCRAMBLED_SB_LEVEL

\* sb_level_dict.get(ign, -1)
SbLevel(levels, i) == IF i \in DOMAIN levels THEN levels[i] ELSE -1

\* get_raw_to_boiled_promotion_igns that asks for one long join instead of
\* membership of the active list
get_raw_to_boiled_promotion_igns_AnyLongJoin(dict, active, act, known, nearest, today) ==
    Filter(dict[RAW_RANK],
           LAMBDA i :
               /\ HasKey(act, i)
               /\ Len(Info(act, i).last_long_join) >= NUM_LONG_JOINS_FOR_RAW_PROMOTION
               /\ RecentlyActive(Info(act, i), nearest,
                                 MINS_FOR_RAW_PROMOTION_ACTIVITY_RANGE,
                                 NUM_LONG_JOINS_FOR_RAW_PROMOTION)
               /\ JoinDateAllows(known, i, today,
                                 MINS_FOR_RAW_JOIN_DATE_PROMOTION_RANGE))

get_raw_to_boiled_promotion_igns(dict, active, act, known, nearest, today) ==
    Filter(dict[RAW_RANK],
           LAMBDA i :
               /\ i \in Range(active)
               /\ RecentlyActive(Info(act, i), nearest,
                                 MINS_FOR_RAW_PROMOTION_ACTIVITY_RANGE,
                                 NUM_LONG_JOINS_FOR_RAW_PROMOTION)
               /\ JoinDateAllows(known, i, today,
                                 MINS_FOR_RAW_JOIN_DATE_PROMOTION_RANGE))

get_boiled_to_scrambled_promotion_igns(dict, active, act, known, nearest, today, levels) ==
    Filter(dict[BOILED_RANK],
           LAMBDA i :
               /\ i \in Range(active)
               /\ RecentlyActive(Info(act, i), nearest,
                                 MINS_FOR_BOILED_PROMOTION_ACTIVITY_RANGE,
                                 NUM_LONG_JOINS_FOR_BOILED_PROMOTION)
               /\ JoinDateAllows(known, i, today,
                                 MINS_FOR_BOILED_JOIN_DATE_PROMOTION_RANGE)
               /\ SbLevel(levels, i) >= SCRAMBLED_SB_LEVEL)

\* print_activity_log: the warning list and the printed list of a promotion
UnknownJoinIgns(promotion, known) ==
    Filter(promotion, LAMBDA i : known[i] = None)

PrintedPromotion(promotion, known) ==
    Filter(promotion, LAMBDA i : i \notin Range(UnknownJoinIgns(promotion, known)))


\* ------------------------------------------------------------- the download
\* A description is held as the list of its words, str.split(" "); the
\* prefix is its first word and the blank after it.
JOIN_LEAVE_PREFIX == "<:egg_right:1178195628615028776>"
JOIN_COLOR == 4714569
LEAVE_COLOR == 15747399
OtherColor == 0

\* --max_days, by default
MAX_DAYS == 60

JoinedTheGuild == <<"joined", "the", "guild">>

DownloadTimes == {0, 50}

\* datetime.now() when save_messages meets the first embed
DownloadNows == {(MAX_DAYS + 1) * 24 * 60, (MAX_DAYS + 1) * 24 * 60 + 11}

\* embed.description is None (no element) or a text (one element)
Embed(description, color) == [description |-> description, color |-> color]

EmbedsOf(i) ==
    { <<>>,
      <<Embed(<<>>, OtherColor)>>,
      <<Embed(<< <<JOIN_LEAVE_PREFIX, i, "woke">> >>, JOIN_COLOR)>>,
      <<Embed(<< <<JOIN_LEAVE_PREFIX, i, "slumbers">> >>, LEAVE_COLOR)>>,
      <<Embed(<< <<JOIN_LEAVE_PREFIX, i, "blinks">> >>, OtherColor)>>,
      <<Embed(<< <<i, "joined", "the", "guild">> >>, OtherColor)>>,
      <<Embed(<< <<i, "left", "the", "guild">> >>, OtherColor)>> }

Messages ==
    [embeds : EmbedsOf("a"), created_at : DownloadTimes]

\* msg.startswith(self.JOIN_LEAVE_PREFIX)
startswith_prefix(msg) == Len(msg) >= 2 /\ msg[1] = JOIN_LEAVE_PREFIX

\* "joined the guild" in msg
ContainsWords(msg, words) ==
    \E k \in 1..(Len(msg) - Len(words) + 1) :
        SubSeq(msg, k, k + Len(words) - 1) = words

\* the message has an embed whose description is a text
HasText(m) == m.embeds # <<>> /\ m.embeds[1].description # <<>>

TextOf(m) == m.embeds[1].description[1]

\* the `continue` of line 95 or of line 108: the iteration ends before the
\* insert and before the max_day test
Continues(m) ==
    /\ m.embeds # <<>>
    /\ \/ m.embeds[1].description = <<>>
       \/ /\ startswith_prefix(TextOf(m))
          /\ m.embeds[1].color \notin {JOIN_COLOR, LEAVE_COLOR}

\* a color that is not the join color counts as the leave color
InsertedUnknownColorIsLeave(m) ==
    IF ~ HasText(m) THEN <<>>
    ELSE IF startswith_prefix(TextOf(m))
    THEN <<[timestamp |-> m.created_at, ign |-> TextOf(m)[2],
            is_join |-> m.embeds[1].color = JOIN_COLOR, is_guild_join |-> FALSE]>>
    ELSE IF ContainsWords(TextOf(m), JoinedTheGuild)
    THEN <<[timestamp |-> m.created_at, ign |-> TextOf(m)[1],
            is_join |-> TRUE, is_guild_join |-> TRUE]>>
    ELSE <<>>

\* what one iteration puts at the front of the list: nothing or one entry
Inserted(m) ==
    IF ~ HasText(m) THEN <<>>
    ELSE IF startswith_prefix(TextOf(m))
    THEN IF m.embeds[1].color = JOIN_COLOR
         THEN <<[timestamp |-> m.created_at, ign |-> TextOf(m)[2],
                 is_join |-> TRUE, is_guild_join |-> FALSE]>>
         ELSE IF m.embeds[1].color = LEAVE_COLOR
         THEN <<[timestamp |-> m.created_at, ign |-> TextOf(m)[2],
                 is_join |-> FALSE, is_guild_join |-> FALSE]>>
         ELSE <<>>
    ELSE IF ContainsWords(TextOf(m), JoinedTheGuild)
    THEN <<[timestamp |-> m.created_at, ign |-> TextOf(m)[1],
            is_join |-> TRUE, is_guild_join |-> TRUE]>>
    ELSE <<>>

\* `if timestamp < max_day: break`, reached when the iteration did not continue
Breaks(m, day) ==
    /\ m.embeds # <<>>
    /\ ~ Continues(m)
    /\ m.created_at < day

\* what channel.history(limit=self.max_messages) can yield
Histories == UNION { [1..n -> Messages] : n \in 0..MaxHistoryLen }

\* a log file given with --log_file, its entries in any order
SuppliedLogs ==
    LET entries == { e \in LogEntries :
                        e.ign = "a" /\ e.timestamp \in DownloadTimes }
    IN  UNION { [1..n -> entries] : n \in 1..MaxFileLen }


\* --------------------------------------------- data/guild_list.txt as text
\* A line is the list of its words.  A rank line is "-- <rank> --", a member
\* line is names each followed by the bullet, anything else is other text.
BULLET == "●"
RankLine(rank) == <<"--", rank, "--">>
HeaderLine == <<"Guild", "members">>
BlankLine == <<>>

RosterLines ==
    { HeaderLine, BlankLine, RankLine(RAW_RANK), RankLine(BOILED_RANK),
      <<"a", BULLET>>, <<"c", BULLET>>, <<"b", BULLET, "a", BULLET>> }

RosterFiles == UNION { [1..n -> RosterLines] : n \in 1..MaxRosterLines }

\* line.startswith("--")
startswith_dashes(line) == line # <<>> /\ line[1] = "--"

\* line.strip()[3:-3]
RankOf(line) == IF Len(line) >= 3 THEN line[2] ELSE ""

\* "●" in line
HasBullet(line) == BULLET \in Range(line)

\* [ign.strip() for ign in line.split("●") if ign.strip() != ""], every
\* name being one word
SplitBullets(line) == Filter(line, LAMBDA w : w # BULLET)

\* the index of the first rank line, 0 when `next(f)` runs off the file
RECURSIVE SkipHeader(_, _)
SkipHeader(lines, k) ==
    IF k > Len(lines) THEN 0
    ELSE IF startswith_dashes(lines[k]) THEN k
    ELSE SkipHeader(lines, k + 1)

\* guild_list[rank] = igns on an insertion-ordered dict, held as the list of
\* its items
SetItem(items, rank, igns) ==
    IF \E k \in 1..Len(items) : items[k].rank = rank
    THEN [k \in 1..Len(items) |->
            IF items[k].rank = rank THEN [rank |-> rank, igns |-> igns]
            ELSE items[k]]
    ELSE Append(items, [rank |-> rank, igns |-> igns])

\* the loop `for line in f` from line k on
RECURSIVE ParseLines(_, _, _, _)
ParseLines(lines, k, current_rank, items) ==
    IF k > Len(lines) THEN items
    ELSE IF startswith_dashes(lines[k])
    THEN ParseLines(lines, k + 1, RankOf(lines[k]), items)
    ELSE IF HasBullet(lines[k])
    THEN ParseLines(lines, k + 1, current_rank,
                    SetItem(items, current_rank, SplitBullets(lines[k])))
    ELSE items

\* load_guild_list on a file with a rank line: the items of guild_list
load_guild_list(lines) ==
    LET first == SkipHeader(lines, 1)
    IN  ParseLines(lines, first + 1, RankOf(lines[first]), <<>>)

\* the dict as a function from rank to names
AsDict(items) ==
    [r \in { items[k].rank : k \in 1..Len(items) } |->
        items[CHOOSE k \in 1..Len(items) : items[k].rank = r].igns]


\* ------------------------------------------------------------------- state
VARIABLES
    guild_list_txt,      \* data/guild_list.txt, as load_guild_list parses it
    sb_level_list_txt,   \* data/sb_level_list.txt, as load_sb_level_list parses it
    logs,                \* the log file when its content is fixed up front
    missing_files,       \* the data files whose open() raises
    history,             \* what channel.history yields, in the order it yields
    fetched,             \* messages save_messages has taken from it
    message_logs,        \* the list `logs` of save_messages
    max_day,             \* None until the first embed has been seen
    guild_list_lines,    \* data/guild_list.txt as text, line by line
    active_list_lines,   \* output/active_igns.txt as text, line by line
    member_names,        \* the roster names the role updater was given
    active_list,         \* the active names the role updater was given
    guild_found,         \* get_guild(guild_id) finds the server
    role_found,          \* the server has the role ROLE_NAME
    server_members,      \* the members of the server
    member_list,         \* the Member objects on_ready fetched
    server_roles,        \* the members holding the role on the server
    names_done,          \* names of member_names on_ready has handled
    calls,               \* add_roles / remove_roles issued by this on_ready
    updater_runs,        \* runs of the role updater that have ended
    pc,                  \* where the tracker is: "init", "loop", "done",
                         \*   or the exception that ended the invocation
    runs,                \* invocations of calculate_activity started so far
    guild_list_dict, sb_level_dict,
    furthest_log_time, nearest_log_time,
    known_guild_join_dates, igns_in_grace_period,
    activity,
    idx,                 \* entries of the log the loop has consumed
    log,                 \* the entry of the latest iteration
    active_igns, inactive_igns, grace_period_igns,
    raw_to_boiled_promotion_igns, boiled_to_scrambled_promotion_igns,
    today_raw, today_boiled,  \* datetime.now() as read by each promotion list
    prev                 \* what the previous invocation left behind

files == <<guild_list_txt, sb_level_list_txt, logs, missing_files>>
download == <<history, fetched, message_logs, max_day>>
updater == <<guild_list_lines, active_list_lines, member_names, active_list,
             guild_found, role_found, server_members, member_list,
             server_roles, names_done, calls, updater_runs>>
inputs == <<guild_list_dict, sb_level_dict, furthest_log_time, nearest_log_time>>
session == <<known_guild_join_dates, igns_in_grace_period, activity, idx, log>>
tiers == <<active_igns, inactive_igns, grace_period_igns>>
promotions == <<raw_to_boiled_promotion_igns, boiled_to_scrambled_promotion_igns,
                today_raw, today_boiled>>
vars == <<files, download, updater, pc, runs, inputs, session, tiers, promotions, prev>>

NoLog == [timestamp |-> None, ign |-> "", is_join |-> FALSE, is_guild_join |-> FALSE]

\* the results an invocation leaves in the tracker
Results ==
    [activity |-> activity,
     active_igns |-> active_igns,
     inactive_igns |-> inactive_igns,
     grace_period_igns |-> grace_period_igns,
     raw_to_boiled_promotion_igns |-> raw_to_boiled_promotion_igns,
     boiled_to_scrambled_promotion_igns |-> boiled_to_scrambled_promotion_igns,
     today_raw |-> today_raw, today_boiled |-> today_boiled]

\* ActivityTracker(): _reset() empties self.activity; nothing else exists yet
ConstructedFields ==
    /\ runs = 0
    /\ guild_list_dict = <<>> /\ sb_level_dict = <<>>
    /\ furthest_log_time = None /\ nearest_log_time = None
    /\ known_guild_join_dates = [i \in Igns |-> None]
    /\ igns_in_grace_period = {}
    /\ activity = <<>>
    /\ idx = 0 /\ log = NoLog
    /\ active_igns = <<>> /\ inactive_igns = <<>> /\ grace_period_igns = <<>>
    /\ raw_to_boiled_promotion_igns = <<>>
    /\ boiled_to_scrambled_promotion_igns = <<>>
    /\ today_raw = None /\ today_boiled = None
    /\ prev = <<>>

Constructed ==
    /\ pc = "init"
    /\ ConstructedFields

\* no DiscordLogClient runs: main was given --log_file
NoDownload ==
    /\ history = <<>>
    /\ fetched = 0
    /\ message_logs = <<>>
    /\ max_day = None

\* no role updater runs
NoUpdater ==
    /\ guild_list_lines = <<>>
    /\ active_list_lines = <<>>
    /\ member_names = <<>>
    /\ active_list = <<>>
    /\ guild_found = FALSE
    /\ role_found = FALSE
    /\ server_members = <<>>
    /\ member_list = <<>>
    /\ server_roles = {}
    /\ names_done = 0
    /\ calls = <<>>
    /\ updater_runs = 0

\* the data files are there, or one of them is not
Init ==
    /\ \/ /\ \E f \in DataFiles :
                /\ guild_list_txt = f[1]
                /\ sb_level_list_txt = f[2]
          /\ missing_files = {}
       \/ /\ guild_list_txt = <<>>
          /\ sb_level_list_txt \in SbLevelLists
          /\ missing_files = {GUILD_LIST_FILENAME}
       \/ /\ guild_list_txt \in Rosters
          /\ sb_level_list_txt = <<>>
          /\ missing_files = {SB_LEVEL_LIST_FILENAME}
    /\ logs = <<>>
    /\ NoDownload
    /\ NoUpdater
    /\ Constructed

\* calculate_activity up to the loop: the files are loaded, the first and
\* the last timestamp of the log are read, the per-invocation maps are
\* emptied.  self.activity is not touched.
\* load_guild_list on a missing file answers an empty roster, as
\* load_active_list of update_active_roles.py does
BeginMissingRosterIsEmpty(first_time, last_time) ==
    /\ guild_list_dict' =
          IF GUILD_LIST_FILENAME \in missing_files THEN <<>> ELSE guild_list_txt
    /\ sb_level_dict' = sb_level_list_txt
    /\ furthest_log_time' = first_time
    /\ nearest_log_time' = last_time
    /\ known_guild_join_dates' = [i \in Igns |-> None]
    /\ igns_in_grace_period' = {}
    /\ idx' = 0
    /\ log' = NoLog
    /\ pc' = "loop"
    /\ runs' = runs + 1
    /\ prev' = IF runs = 0 THEN prev ELSE Results
    /\ UNCHANGED <<files, download, updater, activity, tiers, promotions>>

Begin(first_time, last_time) ==
    /\ runs' = runs + 1
    /\ prev' = IF runs = 0 THEN prev ELSE Results
    /\ IF GUILD_LIST_FILENAME \in missing_files
       THEN \* open() of line 207 raises
            /\ pc' = "FileNotFoundError"
            /\ UNCHANGED <<inputs, known_guild_join_dates, igns_in_grace_period,
                           idx, log>>
       ELSE IF SB_LEVEL_LIST_FILENAME \in missing_files
       THEN \* open() of line 248 raises
            /\ guild_list_dict' = guild_list_txt
            /\ pc' = "FileNotFoundError"
            /\ UNCHANGED <<sb_level_dict, furthest_log_time, nearest_log_time,
                           known_guild_join_dates, igns_in_grace_period, idx, log>>
       ELSE /\ guild_list_dict' = guild_list_txt
            /\ sb_level_dict' = sb_level_list_txt
            /\ furthest_log_time' = first_time
            /\ nearest_log_time' = last_time
            /\ known_guild_join_dates' = [i \in Igns |-> None]
            /\ igns_in_grace_period' = {}
            /\ idx' = 0
            /\ log' = NoLog
            /\ pc' = "loop"
    /\ UNCHANGED <<files, download, updater, activity, tiers, promotions>>

\* the log is read from a file whose entries come oldest first
Start ==
    /\ pc = "init"
    /\ \E first_time \in Times, last_time \in Times :
          /\ first_time <= last_time
          /\ Begin(first_time, last_time)

\* the body of `for log in logs` on the entry e
LoopBody(e) ==
    LET info == IF HasKey(activity, e.ign) THEN Info(activity, e.ign)
                ELSE NewInfo(e.ign)
    IN  /\ idx' = idx + 1
        /\ log' = e
        /\ IF e.is_join /\ JoinRaisesTypeError(info, e.timestamp)
           THEN /\ pc' = "TypeError"
                /\ activity' = IF HasKey(activity, e.ign) THEN activity
                               ELSE Append(activity, NewInfo(e.ign))
                /\ UNCHANGED <<known_guild_join_dates, igns_in_grace_period>>
           ELSE /\ pc' = pc
                /\ activity' = ActivityAfter(activity, e, furthest_log_time)
                /\ known_guild_join_dates' =
                      IF e.is_join /\ e.is_guild_join
                      THEN [known_guild_join_dates EXCEPT ![e.ign] = e.timestamp]
                      ELSE known_guild_join_dates
                /\ igns_in_grace_period' =
                      IF /\ e.is_join /\ e.is_guild_join
                         /\ InGraceRange(e.timestamp, furthest_log_time)
                      THEN igns_in_grace_period \cup {e.ign}
                      ELSE igns_in_grace_period
        /\ UNCHANGED <<files, download, updater, runs, inputs, tiers, promotions, prev>>

ParseLog ==
    /\ pc = "loop"
    /\ idx < MaxLogLen
    /\ \E e \in LogEntries :
          /\ e.timestamp <= nearest_log_time
          /\ IF idx = 0 THEN e.timestamp = furthest_log_time
                        ELSE e.timestamp >= log.timestamp
          /\ LoopBody(e)

\* calculate_activity after the loop: the tiers, then the promotion lists
Classify ==
    \E grace_order \in Orderings(igns_in_grace_period),
       now_raw \in Nows, now_boiled \in Nows :
        LET guild_list == GuildList(guild_list_dict)
            active == ActiveIgns(activity, guild_list)
        IN  /\ now_raw <= now_boiled
            /\ active_igns' = active
            /\ inactive_igns' = InactiveIgns(activity, grace_order, guild_list)
            /\ grace_period_igns' = GracePeriodIgns(activity, grace_order, guild_list)
            /\ IF RAW_RANK \notin DOMAIN guild_list_dict
               THEN /\ pc' = "KeyError"
                    /\ UNCHANGED promotions
               ELSE /\ today_raw' = now_raw
                    /\ raw_to_boiled_promotion_igns' =
                          get_raw_to_boiled_promotion_igns(
                              guild_list_dict, active, activity,
                              known_guild_join_dates, nearest_log_time, now_raw)
                    /\ IF BOILED_RANK \notin DOMAIN guild_list_dict
                       THEN /\ pc' = "KeyError"
                            /\ UNCHANGED <<boiled_to_scrambled_promotion_igns,
                                           today_boiled>>
                       ELSE /\ pc' = "done"
                            /\ today_boiled' = now_boiled
                            /\ boiled_to_scrambled_promotion_igns' =
                                  get_boiled_to_scrambled_promotion_igns(
                                      guild_list_dict, active, activity,
                                      known_guild_join_dates, nearest_log_time,
                                      now_boiled, sb_level_dict)
            /\ UNCHANGED <<files, download, updater, runs, inputs, session, prev>>

Finish ==
    /\ pc = "loop"
    /\ idx >= 1
    /\ log.timestamp = nearest_log_time
    /\ Classify

Next == Start \/ ParseLog \/ Finish

Spec == Init /\ [][Next]_vars


\* ---------------------------------------------- two invocations, one file
\* The log file is fixed up front and the same tracker object runs
\* calculate_activity on it twice, the data files unchanged in between.
RerunTimes == {0, 11, 50}

RerunLogs ==
    { l \in UNION { [1..n -> LogEntries] : n \in 1..MaxRerunLen } :
        /\ \A k \in 1..Len(l) : l[k].timestamp \in RerunTimes
        /\ \A k \in 1..(Len(l) - 1) : l[k].timestamp <= l[k + 1].timestamp }

InitRerun ==
    /\ \E f \in DataFiles :
          /\ guild_list_txt = f[1]
          /\ sb_level_list_txt = f[2]
    /\ logs \in RerunLogs
    /\ missing_files = {}
    /\ NoDownload
    /\ NoUpdater
    /\ Constructed

StartFile ==
    /\ pc = "init" \/ (pc = "done" /\ runs < 2)
    /\ Begin(logs[1].timestamp, logs[Len(logs)].timestamp)

ParseLogFile ==
    /\ pc = "loop"
    /\ idx < Len(logs)
    /\ LoopBody(logs[idx + 1])

FinishFile ==
    /\ pc = "loop"
    /\ idx = Len(logs)
    /\ Classify

NextRerun == StartFile \/ ParseLogFile \/ FinishFile

SpecRerun == InitRerun /\ [][NextRerun]_vars


\* ------------------------------------- the reconnect scenario, one file
JoinAt(i, t) == [timestamp |-> t, ign |-> i, is_join |-> TRUE, is_guild_join |-> FALSE]
LeaveAt(i, t) == [timestamp |-> t, ign |-> i, is_join |-> FALSE, is_guild_join |-> FALSE]

\* join at T0, leave at T0+10min, join at T0+11min, leave at T0+50min
ReconnectScenario ==
    <<JoinAt("a", 0), LeaveAt("a", 10), JoinAt("a", 11), LeaveAt("a", 50)>>

InsertAt(l, k, e) == SubSeq(l, 1, k) \o <<e>> \o SubSeq(l, k + 1, Len(l))

Sorted(l) == \A k \in 1..(Len(l) - 1) : l[k].timestamp <= l[k + 1].timestamp

\* the scenario alone, or with one entry of another identity anywhere in it
ScenarioLogs ==
    {ReconnectScenario} \cup
    { l \in { InsertAt(ReconnectScenario, k, e) :
                k \in 0..Len(ReconnectScenario),
                e \in { x \in LogEntries : x.ign # "a" } } : Sorted(l) }

InitScenario ==
    /\ \E f \in DataFiles :
          /\ guild_list_txt = f[1]
          /\ sb_level_list_txt = f[2]
    /\ logs \in ScenarioLogs
    /\ missing_files = {}
    /\ NoDownload
    /\ NoUpdater
    /\ Constructed

SpecScenario == InitScenario /\ [][NextRerun]_vars

\* ------------------------------------------ main: download, then calculate
\* main without --log_file runs save_messages and hands the file it saved to
\* calculate_activity; with --log_file it hands over the given file.
InitMain ==
    /\ guild_list_txt = RosterRawA
    /\ sb_level_list_txt = <<>>
    /\ missing_files = {}
    /\ fetched = 0
    /\ message_logs = <<>>
    /\ max_day = None
    /\ NoUpdater
    /\ \/ /\ pc = "save_messages"
          /\ history \in Histories
          /\ logs = <<>>
       \/ /\ pc = "init"
          /\ history = <<>>
          /\ logs \in SuppliedLogs
    /\ ConstructedFields

\* one iteration of `async for m in self.channel.history(...)`; the break
\* of line 116 goes on to save_to_file
FetchMessage ==
    /\ pc = "save_messages"
    /\ fetched < Len(history)
    /\ LET m == history[fetched + 1]
       IN  /\ fetched' = fetched + 1
           /\ message_logs' = Inserted(m) \o message_logs
           /\ IF m.embeds # <<>> /\ max_day = None
              THEN \E now \in DownloadNows :
                      max_day' = now - (MAX_DAYS + 1) * 24 * 60
              ELSE max_day' = max_day
           /\ IF Breaks(m, max_day')
              THEN /\ logs' = message_logs'
                   /\ pc' = "init"
              ELSE /\ logs' = logs
                   /\ pc' = pc
    /\ UNCHANGED <<guild_list_txt, sb_level_list_txt, missing_files, updater, history,
                   runs, inputs, session, tiers, promotions, prev>>

\* the except branch returns without save_to_file
HistoryRaisesLosesLogs ==
    /\ pc = "save_messages"
    /\ fetched < Len(history)
    /\ logs' = <<>>
    /\ pc' = "init"
    /\ UNCHANGED <<guild_list_txt, sb_level_list_txt, missing_files, updater, download,
                   runs, inputs, session, tiers, promotions, prev>>

\* the iterator raises: the except branch saves what the list holds
HistoryRaises ==
    /\ pc = "save_messages"
    /\ fetched < Len(history)
    /\ logs' = message_logs
    /\ pc' = "init"
    /\ UNCHANGED <<guild_list_txt, sb_level_list_txt, missing_files, updater, download,
                   runs, inputs, session, tiers, promotions, prev>>

\* the iterator is exhausted
EndOfHistory ==
    /\ pc = "save_messages"
    /\ fetched = Len(history)
    /\ logs' = message_logs
    /\ pc' = "init"
    /\ UNCHANGED <<guild_list_txt, sb_level_list_txt, missing_files, updater, download,
                   runs, inputs, session, tiers, promotions, prev>>

\* calculate_activity on the file; logs[0] of an empty file raises
StartMain ==
    /\ pc = "init"
    /\ runs = 0
    /\ IF logs = <<>>
       THEN /\ guild_list_dict' = guild_list_txt
            /\ sb_level_dict' = sb_level_list_txt
            /\ pc' = "IndexError"
            /\ runs' = runs + 1
            /\ UNCHANGED <<files, download, updater, furthest_log_time, nearest_log_time,
                           session, tiers, promotions, prev>>
       ELSE Begin(logs[1].timestamp, logs[Len(logs)].timestamp)

NextMain ==
    \/ FetchMessage
    \/ HistoryRaises
    \/ EndOfHistory
    \/ StartMain
    \/ ParseLogFile
    \/ FinishFile

SpecMain == InitMain /\ [][NextMain]_vars


\* ------------------------------------------- one file longer than 60 days
\* A log file, oldest entry first, whose first and last entry can be more
\* than MINS_FOR_ACTIVITY_RANGE apart.
LongLogTimes == {0, 50, MINS_FOR_ACTIVITY_RANGE, MINS_FOR_ACTIVITY_RANGE + 60 * 60}

LongLogs ==
    LET entries == { e \in [timestamp : LongLogTimes, ign : LogIgns,
                            is_join : BOOLEAN, is_guild_join : BOOLEAN] :
                        e.is_guild_join => e.is_join }
    IN  { l \in UNION { [1..n -> entries] : n \in 1..MaxFileLen } : Sorted(l) }

InitLongLog ==
    /\ guild_list_txt = RosterRawA
    /\ sb_level_list_txt = <<>>
    /\ logs \in LongLogs
    /\ missing_files = {}
    /\ NoDownload
    /\ NoUpdater
    /\ Constructed

NextLongLog == StartMain \/ ParseLogFile \/ FinishFile

SpecLongLog == InitLongLog /\ [][NextLongLog]_vars


\* ------------------------------------------------ reading the roster file
\* [ign for igns in guild_list.values() for ign in igns]
RECURSIVE FlattenItems(_)
FlattenItems(items) ==
    IF items = <<>> THEN <<>>
    ELSE items[1].igns \o FlattenItems(Tail(items))

InitRoster ==
    /\ guild_list_txt = <<>>
    /\ sb_level_list_txt = <<>>
    /\ logs = <<>>
    /\ missing_files = {}
    /\ NoDownload
    /\ guild_list_lines \in RosterFiles
    /\ active_list_lines = <<>>
    /\ member_names = <<>>
    /\ active_list = <<>>
    /\ guild_found = FALSE
    /\ role_found = FALSE
    /\ server_members = <<>>
    /\ member_list = <<>>
    /\ server_roles = {}
    /\ names_done = 0
    /\ calls = <<>>
    /\ updater_runs = 0
    /\ Constructed

\* ActivityTracker.load_guild_list, as calculate_activity calls it
TrackerLoadsRoster ==
    /\ pc = "init"
    /\ IF SkipHeader(guild_list_lines, 1) = 0
       THEN /\ pc' = "StopIteration"
            /\ UNCHANGED guild_list_dict
       ELSE /\ pc' = "loaded"
            /\ guild_list_dict' = AsDict(load_guild_list(guild_list_lines))
    /\ UNCHANGED <<files, download, updater, runs, sb_level_dict,
                   furthest_log_time, nearest_log_time, session, tiers,
                   promotions, prev>>

\* load_guild_list of update_active_roles.py, as its main calls it
UpdaterLoadsRoster ==
    /\ pc = "init"
    /\ IF SkipHeader(guild_list_lines, 1) = 0
       THEN /\ pc' = "StopIteration"
            /\ UNCHANGED member_names
       ELSE /\ pc' = "names_loaded"
            /\ member_names' = FlattenItems(load_guild_list(guild_list_lines))
    /\ UNCHANGED <<files, download, guild_list_lines, active_list_lines,
                   active_list, guild_found, role_found, server_members,
                   member_list, server_roles, names_done, calls, updater_runs,
                   runs, inputs, session, tiers, promotions, prev>>

NextRoster == TrackerLoadsRoster \/ UpdaterLoadsRoster

SpecRoster == InitRoster /\ [][NextRoster]_vars


\* ============================================================== properties
\* the roster: every identity of data/guild_list.txt
Roster == Range(GuildList(guild_list_dict))

\* the tiers exist: the invocation got past the classification
Classified == pc \in {"done", "KeyError"}

\* the first promotion list exists
RawComputed == pc = "done" \/ (pc = "KeyError" /\ RAW_RANK \in DOMAIN guild_list_dict)

LongJoins(i) == IF HasKey(activity, i) THEN Info(activity, i).last_long_join ELSE <<>>

StrictlyIncreasing(l) == \A k \in 1..(Len(l) - 1) : l[k] < l[k + 1]

\* ---------------------------------------------------------- the role updater

\* str.lower() on the names of the model
Lower(s) == IF s = "A" THEN "a" ELSE IF s = "C" THEN "c" ELSE s

\* nick, name and global_name are None (no element) or a text (one element)
Member(nick, name, global_name) ==
    [nick |-> nick, name |-> name, global_name |-> global_name]

Members ==
    { Member(<<"a">>, <<"x">>, <<>>),
      Member(<<>>, <<"C">>, <<>>),
      Member(<<>>, <<"y">>, <<"c">>),
      Member(<<"a">>, <<"c">>, <<>>) }

\* the members of the server, each at most once
MemberLists ==
    { l \in UNION { [1..n -> Members] : n \in 0..MaxMembers } :
        \A k \in 1..Len(l), j \in 1..Len(l) : k # j => l[k] # l[j] }

UpdaterRosterFiles ==
    { <<HeaderLine, RankLine(RAW_RANK), l>> :
        l \in { <<"a", BULLET>>, <<"c", BULLET>>, <<"a", BULLET, "c", BULLET>>,
                <<"c", BULLET, "a", BULLET>>, <<"b", BULLET, "a", BULLET>> } }

\* output/active_igns.txt: one name a line, "" a blank line
ActiveFiles == { <<>>, <<"a">>, <<"c">>, <<"a", "", "c">> }

\* [line.strip() for line in f if line.strip()]
load_active_list(lines) == Filter(lines, LAMBDA l : l # "")

\* the attribute is not None and equals the name, both lower-cased
AttrMatches(attr, name) == attr # <<>> /\ Lower(attr[1]) = Lower(name)

MemberMatches(m, name) ==
    \/ AttrMatches(m.nick, name)
    \/ AttrMatches(m.name, name)
    \/ AttrMatches(m.global_name, name)

\* discord.utils.find: the index of the first member that matches, 0 for None
FindMember(list, name) ==
    IF \E k \in 1..Len(list) : MemberMatches(list[k].member, name)
    THEN CHOOSE k \in 1..Len(list) :
            /\ MemberMatches(list[k].member, name)
            /\ \A j \in 1..(k - 1) : ~ MemberMatches(list[j].member, name)
    ELSE 0

\* a call of member.add_roles or member.remove_roles: the member it was
\* issued for, the roster name that found the member, and whether the member
\* held the role on the server when the call was issued
Call(op, k, name) ==
    [op |-> op, member |-> k, name |-> name, held |-> k \in server_roles]

InitUpdater ==
    /\ guild_list_txt = <<>>
    /\ sb_level_list_txt = <<>>
    /\ logs = <<>>
    /\ NoDownload
    /\ missing_files \in {{}, {ACTIVE_LIST_FILENAME}, {GUILD_LIST_FILENAME}}
    /\ guild_list_lines \in UpdaterRosterFiles
    /\ active_list_lines \in
          IF ACTIVE_LIST_FILENAME \in missing_files THEN {<<>>} ELSE ActiveFiles
    /\ member_names = <<>>
    /\ active_list = <<>>
    /\ guild_found \in BOOLEAN
    /\ role_found \in IF guild_found THEN BOOLEAN ELSE {FALSE}
    /\ server_members \in IF guild_found THEN MemberLists ELSE {<<>>}
    /\ server_roles \in
          IF role_found THEN SUBSET (1..Len(server_members)) ELSE {{}}
    /\ member_list = <<>>
    /\ names_done = 0
    /\ calls = <<>>
    /\ updater_runs = 0
    /\ Constructed

\* main, with load_active_list raising when its file is missing
UpdaterMainMissingActiveListRaises ==
    /\ pc = "init" \/ (pc = "closed" /\ updater_runs < 2)
    /\ IF GUILD_LIST_FILENAME \in missing_files
          \/ ACTIVE_LIST_FILENAME \in missing_files
       THEN /\ pc' = "FileNotFoundError"
            /\ UNCHANGED <<member_names, active_list>>
       ELSE IF SkipHeader(guild_list_lines, 1) = 0
       THEN /\ pc' = "StopIteration"
            /\ UNCHANGED <<member_names, active_list>>
       ELSE /\ pc' = "login"
            /\ member_names' = FlattenItems(load_guild_list(guild_list_lines))
            /\ active_list' = load_active_list(active_list_lines)
    /\ UNCHANGED <<files, download, guild_list_lines, active_list_lines,
                   guild_found, role_found, server_members, member_list,
                   server_roles, names_done, calls, updater_runs,
                   runs, inputs, session, tiers, promotions, prev>>

\* main of update_active_roles.py up to client.start: both lists are loaded.
\* load_guild_list opens its file without a try, load_active_list answers
\* [] for a missing file.  A second run of the program reads the same files.
UpdaterMain ==
    /\ pc = "init" \/ (pc = "closed" /\ updater_runs < 2)
    /\ IF GUILD_LIST_FILENAME \in missing_files
       THEN /\ pc' = "FileNotFoundError"
            /\ UNCHANGED <<member_names, active_list>>
       ELSE IF SkipHeader(guild_list_lines, 1) = 0
       THEN /\ pc' = "StopIteration"
            /\ UNCHANGED <<member_names, active_list>>
       ELSE /\ pc' = "login"
            /\ member_names' = FlattenItems(load_guild_list(guild_list_lines))
            /\ active_list' =
                  IF ACTIVE_LIST_FILENAME \in missing_files THEN <<>>
                  ELSE load_active_list(active_list_lines)
    /\ UNCHANGED <<files, download, guild_list_lines, active_list_lines,
                   guild_found, role_found, server_members, member_list,
                   server_roles, names_done, calls, updater_runs,
                   runs, inputs, session, tiers, promotions, prev>>

\* on_ready up to its loop: without the server or without the role the
\* client closes, else the members are fetched, each Member object with the
\* roles the member holds at that time
OnReady ==
    /\ pc = "login"
    /\ names_done' = 0
    /\ calls' = <<>>
    /\ IF ~ guild_found \/ ~ role_found
       THEN /\ pc' = "closed"
            /\ member_list' = <<>>
            /\ updater_runs' = updater_runs + 1
       ELSE /\ pc' = "on_ready"
            /\ member_list' =
                  [k \in 1..Len(server_members) |->
                      [member |-> server_members[k],
                       has_role |-> k \in server_roles]]
            /\ UNCHANGED updater_runs
    /\ UNCHANGED <<files, download, guild_list_lines, active_list_lines,
                   member_names, active_list, guild_found, role_found,
                   server_members, server_roles,
                   runs, inputs, session, tiers, promotions, prev>>

\* what a role mutation does: the server's record changes; the Member object
\* on_ready holds shows the change only if the member update has reached it
Mutates(k, holds) ==
    /\ server_roles' = IF holds THEN server_roles \cup {k} ELSE server_roles \ {k}
    /\ \E seen \in BOOLEAN :
          member_list' =
              [member_list EXCEPT ![k].has_role = IF seen THEN holds ELSE @]

\* one iteration of `for name in self.member_names`
HandleName ==
    /\ pc = "on_ready"
    /\ names_done < Len(member_names)
    /\ names_done' = names_done + 1
    /\ LET name == member_names[names_done + 1]
           k == FindMember(member_list, name)
       IN  IF k = 0
           THEN UNCHANGED <<server_roles, member_list, calls>>
           ELSE IF name \in Range(active_list)
           THEN IF ~ member_list[k].has_role
                THEN /\ calls' = Append(calls, Call("add_roles", k, name))
                     /\ Mutates(k, TRUE)
                ELSE UNCHANGED <<server_roles, member_list, calls>>
           ELSE IF member_list[k].has_role
                THEN /\ calls' = Append(calls, Call("remove_roles", k, name))
                     /\ Mutates(k, FALSE)
                ELSE UNCHANGED <<server_roles, member_list, calls>>
    /\ UNCHANGED <<files, download, guild_list_lines, active_list_lines,
                   member_names, active_list, guild_found, role_found,
                   server_members, updater_runs, pc,
                   runs, inputs, session, tiers, promotions, prev>>

\* `await self.close()` after the loop
CloseUpdater ==
    /\ pc = "on_ready"
    /\ names_done = Len(member_names)
    /\ pc' = "closed"
    /\ updater_runs' = updater_runs + 1
    /\ UNCHANGED <<files, download, guild_list_lines, active_list_lines,
                   member_names, active_list, guild_found, role_found,
                   server_members, member_list, server_roles, names_done,
                   calls, runs, inputs, session, tiers, promotions, prev>>

NextUpdater == UpdaterMain \/ OnReady \/ HandleName \/ CloseUpdater

SpecUpdater == InitUpdater /\ [][NextUpdater]_vars

TypeOK ==
    /\ pc \in {"init", "loop", "done", "KeyError", "TypeError", "FileNotFoundError",
              "save_messages", "IndexError", "loaded", "names_loaded",
              "StopIteration", "login", "on_ready", "closed"}
    /\ idx \in 0..MaxLogLen
    /\ \A k \in 1..Len(activity) : activity[k].ign \in LogIgns
    /\ Range(active_igns) \cup Range(inactive_igns) \cup Range(grace_period_igns) \subseteq Igns

\* C1: after calculate_activity the three tiers are pairwise disjoint and
\* together are exactly the roster, roster identities without a log entry
\* included.
C1_TiersPartitionRoster ==
    Classified =>
        /\ Range(active_igns) \cap Range(grace_period_igns) = {}
        /\ Range(active_igns) \cap Range(inactive_igns) = {}
        /\ Range(grace_period_igns) \cap Range(inactive_igns) = {}
        /\ Range(active_igns) \cup Range(grace_period_igns) \cup Range(inactive_igns)
              = Roster

\* an invocation that ended with an Active, a GracePeriod-or-Inactive logged
\* identity and a roster identity that never was in the log
C1_Witness ==
    /\ pc = "done"
    /\ active_igns # <<>>
    /\ \E i \in Range(inactive_igns) : ~ HasKey(activity, i)

\* C2: after any prefix of an oldest-first log every identity's
\* long_session_starts is strictly increasing.
C2_LongJoinsStrictlyIncreasing ==
    \A k \in 1..Len(activity) : StrictlyIncreasing(activity[k].last_long_join)

\* an identity with two long sessions, after a leave that repeats a session
C2_Witness ==
    /\ pc = "loop"
    /\ ~ log.is_join
    /\ Len(LongJoins(log.ign)) >= 2
    /\ Info(activity, log.ign).last_join = LongJoins(log.ign)[Len(LongJoins(log.ign))]

\* C3: after the reconnect scenario (join T0, leave T0+10, join T0+11,
\* leave T0+50) the identity has exactly one long session, started at T0.
C3_ReconnectIsOneSessionFromT0 ==
    (runs = 1 /\ pc = "loop" /\ idx = Len(logs)) => LongJoins("a") = <<0>>

\* C4: a roster identity is Active exactly when it has at least
\* NUM_LONG_JOINS_FOR_ACTIVITY long sessions.
C4_ActiveIffEnoughLongJoins ==
    Classified =>
        \A i \in Roster :
            i \in Range(active_igns)
                <=> Len(LongJoins(i)) >= NUM_LONG_JOINS_FOR_ACTIVITY

\* one roster identity with exactly two long sessions is Active
C4_Witness ==
    /\ pc = "done"
    /\ \E i \in Roster : Len(LongJoins(i)) = 2 /\ i \in Range(active_igns)

\* C5: an identity of the log that is not on the roster is in no tier and
\* in no promotion list.
C5_OffRosterInNoOutput ==
    Classified =>
        \A i \in Igns :
            (HasKey(activity, i) /\ i \notin Roster) =>
                /\ i \notin Range(active_igns)
                /\ i \notin Range(grace_period_igns)
                /\ i \notin Range(inactive_igns)
                /\ i \notin Range(raw_to_boiled_promotion_igns)
                /\ i \notin Range(boiled_to_scrambled_promotion_igns)

\* an identity off the roster with enough long sessions to be Active
C5_Witness ==
    /\ pc = "done"
    /\ \E i \in Igns : i \notin Roster /\ Len(LongJoins(i)) >= 2

\* C6: a second invocation on the same log and data files leaves the same
\* session states, tiers and promotion lists as the first.
C6_SecondInvocationSameResult ==
    (runs = 2 /\ pc = "done") =>
        /\ activity = prev.activity
        /\ active_igns = prev.active_igns
        /\ inactive_igns = prev.inactive_igns
        /\ grace_period_igns = prev.grace_period_igns
        /\ (today_raw = prev.today_raw =>
               raw_to_boiled_promotion_igns = prev.raw_to_boiled_promotion_igns)
        /\ (today_boiled = prev.today_boiled =>
               boiled_to_scrambled_promotion_igns
                   = prev.boiled_to_scrambled_promotion_igns)


\* none of the last `num` long sessions of i began before nearest - range
RecencyPasses(i, range, num) ==
    \A k \in 1..Len(LongJoins(i)) :
        k > Len(LongJoins(i)) - num => LongJoins(i)[k] >= nearest_log_time - range

RawRank == Range(guild_list_dict[RAW_RANK])
BoiledRank == Range(guild_list_dict[BOILED_RANK])

PassesRawActivity(i) ==
    /\ i \in Range(active_igns)
    /\ RecencyPasses(i, MINS_FOR_RAW_PROMOTION_ACTIVITY_RANGE,
                     NUM_LONG_JOINS_FOR_RAW_PROMOTION)

PassesBoiledActivity(i) ==
    /\ i \in Range(active_igns)
    /\ RecencyPasses(i, MINS_FOR_BOILED_PROMOTION_ACTIVITY_RANGE,
                     NUM_LONG_JOINS_FOR_BOILED_PROMOTION)

HasLevel(i) ==
    i \in DOMAIN sb_level_dict /\ sb_level_dict[i] >= SCRAMBLED_SB_LEVEL

\* C7: every promotion candidate is a roster member of the source rank of
\* its transition and is in the Active tier, hence in neither other tier.
C7_CandidatesAreActiveSourceRank ==
    /\ RawComputed =>
          \A i \in Range(raw_to_boiled_promotion_igns) :
              /\ i \in RawRank
              /\ i \in Range(active_igns)
              /\ i \notin Range(grace_period_igns)
              /\ i \notin Range(inactive_igns)
    /\ pc = "done" =>
          \A i \in Range(boiled_to_scrambled_promotion_igns) :
              /\ i \in BoiledRank
              /\ i \in Range(active_igns)
              /\ i \notin Range(grace_period_igns)
              /\ i \notin Range(inactive_igns)

\* an invocation whose first promotion list has a candidate
C7_Witness ==
    /\ pc = "done"
    /\ raw_to_boiled_promotion_igns # <<>>

\* C8: an Active source-rank identity that passes the recency gate (and, in
\* the second transition, the level gate) and has a known guild-join date is
\* in the promotion list exactly when that date is at or before
\* now - tenureWindow.
C8_TenureGate ==
    /\ RawComputed =>
          \A i \in RawRank :
              (PassesRawActivity(i) /\ known_guild_join_dates[i] # None) =>
                  (i \in Range(raw_to_boiled_promotion_igns)
                      <=> known_guild_join_dates[i]
                            <= today_raw - MINS_FOR_RAW_JOIN_DATE_PROMOTION_RANGE)
    /\ pc = "done" =>
          \A i \in BoiledRank :
              (PassesBoiledActivity(i) /\ known_guild_join_dates[i] # None) =>
                  /\ i \in Range(boiled_to_scrambled_promotion_igns)
                        => known_guild_join_dates[i]
                             <= today_boiled - MINS_FOR_BOILED_JOIN_DATE_PROMOTION_RANGE
                  /\ (HasLevel(i) /\ known_guild_join_dates[i]
                             <= today_boiled - MINS_FOR_BOILED_JOIN_DATE_PROMOTION_RANGE)
                        => i \in Range(boiled_to_scrambled_promotion_igns)

\* a candidate of the first transition whose guild-join date is exactly
\* now - tenureWindow
C8_Witness ==
    /\ pc = "done"
    /\ \E i \in Range(raw_to_boiled_promotion_igns) :
          known_guild_join_dates[i]
              = today_raw - MINS_FOR_RAW_JOIN_DATE_PROMOTION_RANGE

\* C9: an identity that passes every other gate and has no known guild-join
\* date is in the promotion list and in its warning list, not in the printed
\* list; the warning list and the printed list are disjoint and together are
\* the promotion list.
C9_UnknownJoinDateIsFlagged ==
    /\ RawComputed =>
          LET unknown == Range(UnknownJoinIgns(raw_to_boiled_promotion_igns,
                                               known_guild_join_dates))
              printed == Range(PrintedPromotion(raw_to_boiled_promotion_igns,
                                                known_guild_join_dates))
          IN  /\ \A i \in RawRank :
                    (PassesRawActivity(i) /\ known_guild_join_dates[i] = None) =>
                        /\ i \in Range(raw_to_boiled_promotion_igns)
                        /\ i \in unknown
                        /\ i \notin printed
              /\ unknown \cap printed = {}
              /\ unknown \cup printed = Range(raw_to_boiled_promotion_igns)
    /\ pc = "done" =>
          LET unknown == Range(UnknownJoinIgns(boiled_to_scrambled_promotion_igns,
                                               known_guild_join_dates))
              printed == Range(PrintedPromotion(boiled_to_scrambled_promotion_igns,
                                                known_guild_join_dates))
          IN  /\ \A i \in BoiledRank :
                    (/\ PassesBoiledActivity(i)
                     /\ HasLevel(i)
                     /\ known_guild_join_dates[i] = None) =>
                        /\ i \in Range(boiled_to_scrambled_promotion_igns)
                        /\ i \in unknown
                        /\ i \notin printed
              /\ unknown \cap printed = {}
              /\ unknown \cup printed = Range(boiled_to_scrambled_promotion_igns)

\* a candidate of the second transition without a known guild-join date
C9_Witness ==
    /\ pc = "done"
    /\ \E i \in Range(boiled_to_scrambled_promotion_igns) :
          known_guild_join_dates[i] = None

\* C10: an identity without a level, or with a level below
\* SCRAMBLED_SB_LEVEL, is never in the second promotion list.
C10_LevelGate ==
    pc = "done" =>
        \A i \in Igns :
            ~ HasLevel(i) => i \notin Range(boiled_to_scrambled_promotion_igns)

\* an identity without a level that passes every other gate of the second
\* transition
C10_Witness ==
    /\ pc = "done"
    /\ \E i \in BoiledRank :
          /\ i \notin DOMAIN sb_level_dict
          /\ PassesBoiledActivity(i)
          /\ known_guild_join_dates[i] = None

\* the same with a level just below the threshold
C10_WitnessBelow ==
    /\ pc = "done"
    /\ \E i \in BoiledRank :
          /\ i \in DOMAIN sb_level_dict
          /\ sb_level_dict[i] = SCRAMBLED_SB_LEVEL - 1
          /\ PassesBoiledActivity(i)
          /\ known_guild_join_dates[i] = None

\* C11: a roster identity that is not Active and whose guild join is in the
\* log within MINS_FOR_ACTIVITY_RANGE of the latest log timestamp is in the
\* grace period tier and not in the inactive tier.
C11_GuildJoinInWindowIsGracePeriod ==
    Classified =>
        \A i \in Roster :
            (/\ i \notin Range(active_igns)
             /\ known_guild_join_dates[i] # None
             /\ known_guild_join_dates[i] >= nearest_log_time - MINS_FOR_ACTIVITY_RANGE) =>
                /\ i \in Range(grace_period_igns)
                /\ i \notin Range(inactive_igns)

\* a roster identity with a guild join in the log and no long session
C11_Witness ==
    /\ pc = "done"
    /\ \E i \in Roster :
          /\ known_guild_join_dates[i] # None
          /\ known_guild_join_dates[i] >= nearest_log_time - MINS_FOR_ACTIVITY_RANGE
          /\ LongJoins(i) = <<>>
          /\ i \in Range(grace_period_igns)

\* C14: when data/guild_list.txt does not exist, calculate_activity ends with
\* the error of the failed open before the loop takes a log entry: no
\* identity gets a session state, no tier and no promotion list is made.
C14_MissingRosterAborts ==
    GUILD_LIST_FILENAME \in missing_files =>
        /\ pc \in {"init", "FileNotFoundError"}
        /\ idx = 0
        /\ log = NoLog
        /\ activity = <<>>
        /\ active_igns = <<>> /\ inactive_igns = <<>> /\ grace_period_igns = <<>>
        /\ raw_to_boiled_promotion_igns = <<>>
        /\ boiled_to_scrambled_promotion_igns = <<>>
        /\ today_raw = None /\ today_boiled = None

\* calculate_activity has been called without the roster file
C14_Witness ==
    /\ GUILD_LIST_FILENAME \in missing_files
    /\ runs = 1
    /\ pc = "FileNotFoundError"

\* C12: the entries the loop of calculate_activity has taken so far are in
\* non-decreasing timestamp order, whatever order channel.history yielded
\* the messages in and whatever order a given log file has.
C12_ProcessedInTimestampOrder ==
    idx >= 1 => Sorted(SubSeq(logs, 1, idx))

\* C13: an iteration of save_messages on a message with the join/leave
\* prefix whose color is neither JOIN_COLOR nor LEAVE_COLOR adds no entry
\* and the download goes on; on JOIN_COLOR it puts one entry with
\* is_join = TRUE at the front, on LEAVE_COLOR one with is_join = FALSE.
C13_UnknownColorSkipped ==
    [][(pc = "save_messages" /\ fetched' = fetched + 1) =>
          LET m == history[fetched + 1]
              color == m.embeds[1].color
          IN  (HasText(m) /\ startswith_prefix(TextOf(m))) =>
                 /\ color \notin {JOIN_COLOR, LEAVE_COLOR} =>
                       /\ message_logs' = message_logs
                       /\ pc' = "save_messages"
                 /\ color \in {JOIN_COLOR, LEAVE_COLOR} =>
                       /\ Len(message_logs') = Len(message_logs) + 1
                       /\ Tail(message_logs') = message_logs
                       /\ message_logs'[1].is_join = (color = JOIN_COLOR)
                       /\ ~ message_logs'[1].is_guild_join
                       /\ message_logs'[1].ign = TextOf(m)[2]]_vars

\* a message of unknown color has been passed over after one that was kept
C13_Witness ==
    /\ pc = "save_messages"
    /\ fetched = 2
    /\ HasText(history[2])
    /\ startswith_prefix(TextOf(history[2]))
    /\ history[2].embeds[1].color \notin {JOIN_COLOR, LEAVE_COLOR}
    /\ Len(message_logs) = 1

\* the join a leave of identity i is measured from: last_join, or the first
\* timestamp of the log when no join is recorded
SessionStart(i) ==
    IF HasKey(activity, i) /\ Info(activity, i).last_join # None
    THEN Info(activity, i).last_join
    ELSE furthest_log_time

\* the loop has just taken a leave entry of identity i
LeaveStep(i) ==
    /\ pc = "loop"
    /\ idx' = idx + 1
    /\ log'.ign = i
    /\ ~ log'.is_join

\* C15: a leave whose total span from last_join is under MINS_FOR_LONG_JOIN
\* appends nothing to the identity's long session list; an identity without
\* a long session at the end of the log, such as one whose only session is
\* join at T0, leave at T0+10min, is not active.
C15_ShortSessionNotLong ==
    /\ [][\A i \in LogIgns :
            (LeaveStep(i) /\ log'.timestamp - SessionStart(i) < MINS_FOR_LONG_JOIN) =>
                LongJoins(i)' = LongJoins(i)]_vars
    /\ [](Classified =>
            \A i \in Igns : LongJoins(i) = <<>> => i \notin Range(active_igns))

\* the log was one short session of a roster identity
C15_Witness ==
    /\ pc = "done"
    /\ idx = 2
    /\ ~ log.is_join
    /\ log.ign \in Roster
    /\ LET info == Info(activity, log.ign)
       IN  /\ info.last_join = furthest_log_time
           /\ info.last_leave = log.timestamp
           /\ info.last_leave - info.last_join \in 1..(MINS_FOR_LONG_JOIN - 1)
           /\ info.last_long_join = <<>>
    /\ log.ign \notin Range(active_igns)

\* C16: a leave whose total span from last_join is MINS_FOR_LONG_JOIN or
\* more, whole days included, appends last_join to the identity's long
\* session list, unless last_join is the last value of the list already.
C16_LongSessionAppended ==
    [][\A i \in LogIgns :
          (LeaveStep(i) /\ log'.timestamp - SessionStart(i) >= MINS_FOR_LONG_JOIN) =>
              IF LongJoins(i) # <<>> /\ LongJoins(i)[Len(LongJoins(i))] = SessionStart(i)
              THEN LongJoins(i)' = LongJoins(i)
              ELSE LongJoins(i)' = Append(LongJoins(i), SessionStart(i))]_vars

\* the loop has just taken a join entry of identity i and gone on
JoinStep(i) ==
    /\ pc = "loop"
    /\ pc' = "loop"
    /\ idx' = idx + 1
    /\ log'.ign = i
    /\ log'.is_join

\* C17: on a join at t of an identity with a recorded leave L and a recorded
\* join J, last_join stays J when t - L <= MINS_FOR_RECONNECT_TIMEOUT and
\* t - J >= MINS_FOR_JOIN_LOG_TIMEOUT; it becomes t only when
\* t - L > MINS_FOR_RECONNECT_TIMEOUT or t - J < MINS_FOR_JOIN_LOG_TIMEOUT.
C17_ReconnectKeepsLastJoin ==
    [][\A i \in LogIgns :
          (/\ JoinStep(i)
           /\ HasKey(activity, i)
           /\ Info(activity, i).last_leave # None
           /\ Info(activity, i).last_join # None) =>
              LET L == Info(activity, i).last_leave
                  J == Info(activity, i).last_join
                  t == log'.timestamp
              IN  /\ (t - L <= MINS_FOR_RECONNECT_TIMEOUT /\ t - J >= MINS_FOR_JOIN_LOG_TIMEOUT)
                        => Info(activity, i).last_join' = J
                  /\ (Info(activity, i).last_join' = t /\ t # J)
                        => \/ t - L > MINS_FOR_RECONNECT_TIMEOUT
                           \/ t - J < MINS_FOR_JOIN_LOG_TIMEOUT]_vars

\* C18: after the loop has taken a guild join at t, the identity is a grace
\* period candidate exactly when t is within MINS_FOR_ACTIVITY_RANGE of the
\* latest timestamp of the log; an older guild join makes no candidate.
C18_CandidateIffWithinWindowOfLatest ==
    (pc = "loop" /\ idx >= 1 /\ log.is_join /\ log.is_guild_join) =>
        (log.ign \in igns_in_grace_period
            <=> log.timestamp >= nearest_log_time - MINS_FOR_ACTIVITY_RANGE)

\* the most recent long session of identity i started before
\* nearest_log_time - range
LastLongJoinTooOld(i, range) ==
    /\ LongJoins(i) # <<>>
    /\ LongJoins(i)[Len(LongJoins(i))] < nearest_log_time - range

\* C19: an identity is in a promotion list only if none of the last N long
\* session starts (N = 1 for both transitions) is older than the latest log
\* timestamp less 7 days; an active identity of the source rank whose most
\* recent long session started before that bound is not in the list.
C19_RecencyGate ==
    /\ RawComputed =>
          /\ \A i \in Range(raw_to_boiled_promotion_igns) :
                RecencyPasses(i, MINS_FOR_RAW_PROMOTION_ACTIVITY_RANGE,
                              NUM_LONG_JOINS_FOR_RAW_PROMOTION)
          /\ \A i \in RawRank \cap Range(active_igns) :
                LastLongJoinTooOld(i, MINS_FOR_RAW_PROMOTION_ACTIVITY_RANGE)
                    => i \notin Range(raw_to_boiled_promotion_igns)
    /\ pc = "done" =>
          /\ \A i \in Range(boiled_to_scrambled_promotion_igns) :
                RecencyPasses(i, MINS_FOR_BOILED_PROMOTION_ACTIVITY_RANGE,
                              NUM_LONG_JOINS_FOR_BOILED_PROMOTION)
          /\ \A i \in BoiledRank \cap Range(active_igns) :
                LastLongJoinTooOld(i, MINS_FOR_BOILED_PROMOTION_ACTIVITY_RANGE)
                    => i \notin Range(boiled_to_scrambled_promotion_igns)

\* an active identity of the first rank that only the recency gate keeps
\* out of the list
C19_Witness ==
    /\ pc = "done"
    /\ \E i \in RawRank \cap Range(active_igns) :
          /\ LastLongJoinTooOld(i, MINS_FOR_RAW_PROMOTION_ACTIVITY_RANGE)
          /\ known_guild_join_dates[i] = None
          /\ i \notin Range(raw_to_boiled_promotion_igns)

IsPrefix(s, t) == Len(s) <= Len(t) /\ SubSeq(t, 1, Len(s)) = s

\* C20: in one pass over an oldest-first log no step takes session state
\* back: an identity keeps its state, last_join and last_leave once set do
\* not decrease, and the long session list before the step is a prefix of
\* the list after it.
C20_SessionStateOnlyGrows ==
    [][\A i \in LogIgns :
          HasKey(activity, i) =>
              /\ HasKey(activity', i)
              /\ Info(activity, i).last_join # None =>
                    Info(activity, i).last_join' >= Info(activity, i).last_join
              /\ Info(activity, i).last_leave # None =>
                    Info(activity, i).last_leave' >= Info(activity, i).last_leave
              /\ IsPrefix(LongJoins(i), LongJoins(i)')]_vars

\* an identity with two long sessions whose last join is later than the
\* first entry of the log
C20_Witness ==
    /\ pc = "loop"
    /\ \E i \in LogIgns :
          /\ HasKey(activity, i)
          /\ Len(LongJoins(i)) >= 2
          /\ Info(activity, i).last_join > furthest_log_time
          /\ Info(activity, i).last_leave >= Info(activity, i).last_join

\* identity i has no recorded join: no session state, or last_join is None
NoJoinRecorded(i) ==
    ~ HasKey(activity, i) \/ Info(activity, i).last_join = None

\* C21: a leave of an identity without a recorded join sets last_join to the
\* timestamp of the first entry of the log and measures the session from
\* there: under MINS_FOR_LONG_JOIN nothing is appended, from
\* MINS_FOR_LONG_JOIN up to a day that first timestamp is appended.
C21_LeaveWithoutJoinStartsAtFirstEntry ==
    [][\A i \in LogIgns :
          (LeaveStep(i) /\ NoJoinRecorded(i)) =>
              LET span == log'.timestamp - furthest_log_time
              IN  /\ Info(activity, i).last_join' = furthest_log_time
                  /\ Info(activity, i).last_leave' = log'.timestamp
                  /\ span < MINS_FOR_LONG_JOIN => LongJoins(i)' = <<>>
                  /\ (span >= MINS_FOR_LONG_JOIN /\ span < 24 * 60) =>
                        LongJoins(i)' = <<furthest_log_time>>]_vars

\* the second entry is the first of its identity, a leave later than the
\* first entry of the log
C21_Witness ==
    /\ pc = "loop"
    /\ idx = 2
    /\ ~ log.is_join
    /\ logs[1].ign # log.ign
    /\ log.timestamp > furthest_log_time
    /\ Info(activity, log.ign).last_join = furthest_log_time
    /\ Info(activity, log.ign).last_long_join = <<furthest_log_time>>

\* the place of x in the list s
IndexOf(s, x) == CHOOSE k \in 1..Len(s) : s[k] = x

\* the list t keeps the relative order its elements have in the list s
KeepsOrderOf(t, s) ==
    /\ Range(t) \subseteq Range(s)
    /\ \A k \in 1..Len(t), l \in 1..Len(t) :
          k < l => IndexOf(s, t[k]) < IndexOf(s, t[l])

\* identities with a session state by last_join descending
DescendingByLastJoin(t) ==
    \A k \in 1..Len(t), l \in 1..Len(t) :
        (k < l /\ HasKey(activity, t[k]) /\ HasKey(activity, t[l])) =>
            Info(activity, t[k]).last_join >= Info(activity, t[l]).last_join

FirstRankLine ==
    IF \E k \in 1..Len(guild_list_lines) : startswith_dashes(guild_list_lines[k])
    THEN CHOOSE k \in 1..Len(guild_list_lines) :
            /\ startswith_dashes(guild_list_lines[k])
            /\ \A j \in 1..(k - 1) : ~ startswith_dashes(guild_list_lines[j])
    ELSE 0

\* line k is a member line: it has a bullet and is no rank line
IsMemberLine(k) ==
    /\ ~ startswith_dashes(guild_list_lines[k])
    /\ HasBullet(guild_list_lines[k])

\* the member lines of the sections: those behind the first rank line with
\* only rank lines and member lines in between
SectionMemberLines ==
    { k \in 1..Len(guild_list_lines) :
        /\ FirstRankLine # 0
        /\ k > FirstRankLine
        /\ IsMemberLine(k)
        /\ \A j \in (FirstRankLine + 1)..(k - 1) :
              startswith_dashes(guild_list_lines[j]) \/ IsMemberLine(j) }

\* the rank of the section line k is in
SectionRank(k) ==
    RankOf(guild_list_lines[
        CHOOSE j \in 1..(k - 1) :
            /\ startswith_dashes(guild_list_lines[j])
            /\ \A m \in (j + 1)..(k - 1) : ~ startswith_dashes(guild_list_lines[m])])

\* C23: every name on a member line of a section is in the parsed roster of
\* the section's rank, also when the section has several member lines; the
\* first line that is neither a rank line nor a member line ends the
\* parsing, and what was parsed before it is kept and nothing behind it is.
C23_EveryMemberLineParsed ==
    /\ pc = "loaded" =>
          /\ \A k \in SectionMemberLines :
                /\ SectionRank(k) \in DOMAIN guild_list_dict
                /\ Range(SplitBullets(guild_list_lines[k]))
                      \subseteq Range(guild_list_dict[SectionRank(k)])
          /\ \A r \in DOMAIN guild_list_dict :
                Range(guild_list_dict[r]) \subseteq
                    UNION { Range(SplitBullets(guild_list_lines[k])) :
                              k \in { j \in SectionMemberLines : SectionRank(j) = r } }
    /\ pc = "names_loaded" =>
          Range(member_names) =
              UNION { Range(SplitBullets(guild_list_lines[k])) :
                        k \in SectionMemberLines }

\* the entries accepted from the messages h, the one accepted last first
RECURSIVE AcceptedOf(_)
AcceptedOf(h) ==
    IF h = <<>> THEN <<>>
    ELSE Inserted(h[Len(h)]) \o AcceptedOf(SubSeq(h, 1, Len(h) - 1))

IsSuffix(s, t) ==
    Len(s) <= Len(t) /\ SubSeq(t, Len(t) - Len(s) + 1, Len(t)) = s

\* save_messages ended because the iterator raised
RaisedWhileFetching ==
    /\ pc # "save_messages"
    /\ history # <<>>
    /\ fetched < Len(history)
    /\ fetched = 0 \/ ~ Breaks(history[fetched], max_day)

\* C24: when the iterator raises after k entries were accepted, the saved
\* file holds exactly those k entries, in the order and at the end of what
\* a run taking more of the messages would have saved.
C24_PartialDownloadSaved ==
    RaisedWhileFetching =>
        /\ logs = AcceptedOf(SubSeq(history, 1, fetched))
        /\ \A n \in fetched..Len(history) :
              IsSuffix(logs, AcceptedOf(SubSeq(history, 1, n)))

\* the iterator raised after two entries were accepted
C24_Witness ==
    /\ RaisedWhileFetching
    /\ Len(logs) = 2
    /\ logs[1].timestamp # logs[2].timestamp

\* C25: between two iterations of the loop every identity with a session
\* state has a last_join, so last_leave is never set without it, the third
\* comparison of a join never meets None, and no tier is sorted on None.
C25_LastJoinNeverNull ==
    /\ \A k \in 1..Len(activity) : activity[k].last_join # None
    /\ \A k \in 1..Len(activity) :
          activity[k].last_leave # None => activity[k].last_join # None
    /\ pc # "TypeError"
    /\ Classified =>
          \A i \in Range(active_igns) \cup Range(grace_period_igns) :
              HasKey(activity, i) /\ Info(activity, i).last_join # None

\* the first entry of an identity was a leave, and a join of it followed
C25_Witness ==
    /\ pc = "loop"
    /\ idx = 2
    /\ logs[1].ign = logs[2].ign
    /\ ~ logs[1].is_join
    /\ logs[2].is_join
    /\ Info(activity, log.ign).last_leave = logs[1].timestamp
    /\ Info(activity, log.ign).last_join = logs[2].timestamp

\* the member a roster name found in this run, 0 when it found none
MatchedMember(name) == FindMember(member_list, name)

\* on_ready went through its loop and closed the client
OnReadyCompleted == pc = "closed" /\ guild_found /\ role_found

\* the on_ready of a second run with the same lists, after its fetch
InSecondRun ==
    \/ pc = "on_ready" /\ updater_runs = 1
    \/ pc = "closed" /\ updater_runs = 2

\* C26: when on_ready completes, every roster name that matched a member
\* leaves that member holding the role exactly when the name is in the
\* active list; add_roles is issued only for a matched member lacking the
\* role whose name is in the active list, remove_roles only for a matched
\* member holding the role whose name is not in it; an immediate second run
\* with the same lists issues no role mutation.
C26_RoleIffActiveAndSecondRunIdle ==
    /\ OnReadyCompleted =>
          \A n \in Range(member_names) :
              MatchedMember(n) # 0 =>
                  (MatchedMember(n) \in server_roles <=> n \in Range(active_list))
    /\ \A c \in Range(calls) :
          /\ c.op = "add_roles" => c.name \in Range(active_list) /\ ~ c.held
          /\ c.op = "remove_roles" => c.name \notin Range(active_list) /\ c.held
    /\ InSecondRun => calls = <<>>

\* C27: with output/active_igns.txt missing, load_active_list answers an
\* empty list and the run goes on: it grants the role to no member, and when
\* on_ready completes no member a roster name matched holds the role.
C27_MissingActiveListRemovesRole ==
    ACTIVE_LIST_FILENAME \in missing_files =>
        /\ pc # "FileNotFoundError"
        /\ pc \in {"login", "on_ready", "closed"} => active_list = <<>>
        /\ \A c \in Range(calls) : c.op # "add_roles"
        /\ OnReadyCompleted =>
              \A n \in Range(member_names) :
                  MatchedMember(n) # 0 => MatchedMember(n) \notin server_roles

\* the active list is missing and a run has taken the role from a member
\* that held it
C27_Witness ==
    /\ ACTIVE_LIST_FILENAME \in missing_files
    /\ OnReadyCompleted
    /\ updater_runs = 1
    /\ \E c \in Range(calls) : c.op = "remove_roles" /\ c.held
    /\ \E n \in Range(member_names) : MatchedMember(n) # 0
    /\ server_roles = {}

====
